---------------------------- MODULE Spec2Model ----------------------------
(***************************************************************************)
(* Retrieval-augmented chat pipeline of the Danish legal assistant:        *)
(* EmbeddingsService, DatabaseStorage (law texts, text embeddings, chat    *)
(* messages) and the successive revisions of ChatService.                  *)
(*                                                                         *)
(* Texts are sequences of string tokens.  Similarity scores are integers   *)
(* in hundredths (85 stands for 0.85); embedding vectors are integer       *)
(* vectors in tenths, so a vector of norm 10 is a unit vector.             *)
(***************************************************************************)
EXTENDS Integers, Sequences, FiniteSets, TLC

(***************************************************************************)
(* Bounds of the model.                                                    *)
(***************************************************************************)
MaxCalls == 2

MaxEmbeddings == 2

MaxLimit == 2

MaxMessages == 4

MaxTurnMessages == 3

\* Callers of the encoder that overlap.
MaxEncoderCallers == 2

\* Messages the user sends from the chat page.
MaxClientSends == 2

(***************************************************************************)
(* Generic helpers on sequences.                                           *)
(***************************************************************************)
Range(s) == { s[i] : i \in 1..Len(s) }

Min2(a, b) == IF a <= b THEN a ELSE b

\* JavaScript String.prototype.substring(0, n) on a token sequence.
Substring0(s, n) == SubSeq(s, 1, Min2(n, Len(s)))

\* TRUE iff pat occurs in s as a contiguous run (String.prototype.includes).
Includes(s, pat) ==
    \E i \in 1..(Len(s) - Len(pat) + 1) :
        SubSeq(s, i, i + Len(pat) - 1) = pat

\* Position of the first occurrence of pat in s at or after from; 0 if none.
IndexOfFrom(s, pat, from) ==
    LET hits == { i \in from..(Len(s) - Len(pat) + 1) :
                      SubSeq(s, i, i + Len(pat) - 1) = pat }
    IN  IF hits = {} THEN 0
        ELSE CHOOSE i \in hits : \A j \in hits : i <= j

(***************************************************************************)
(* Tokens of the prompt templates (chat.ts 49-79).                         *)
(***************************************************************************)
SP == " "

NL == "\n"

NLNL == "\n\n"

SPM == "SPØRGSMÅL: "

REL == "RELEVANTE LOVBESTEMMELSER:"

INS == "INSTRUKTIONER:"

SVAR == "SVAR:"

Whitespace == {SP, NL, NLNL}

(***************************************************************************)
(* Fixed texts returned by the services.                                   *)
(***************************************************************************)
\* generateResponse's catch block.
FallbackText == <<"Der opstod en fejl ved generering af svar. Prøv venligst igen.">>

\* generateIntelligentFallback.
IntelligentFallbackText == <<"**Systemmeddelelse:**">>

\* Early return of the keyword and floor revisions when nothing is relevant.
NotFoundText == <<"Jeg kunne ikke finde relevante lovbestemmelser for dit spørgsmål.">>

\* callLLM's catch block in the HTTP revision.
LLMUnavailableText == <<"LLM-tjenesten er ikke tilgængelig i øjeblikket. Prøv venligst igen senere.">>

\* data.response || "Ingen svar fra LLM" in the HTTP revision.
NoLLMAnswerText == <<"Ingen svar fra LLM">>

(***************************************************************************)
(* Corpus: law_texts rows (schema.ts 24-39).  Only the columns the chat    *)
(* pipeline reads are kept; lawNumber, chapter, section and paragraph are  *)
(* null in every row of the model.                                         *)
(***************************************************************************)
Sessions == {"s1", "s2"}

\* regenerateResponse reads the messages of the session with this id.
EmptySessionId == ""

DomainIds == {"d1", "d2"}

InitialLawTexts ==
    << [id |-> "L1", title |-> <<"funktionærloven">>, content |-> <<"opsigelse">>,
        domainId |-> "d1"],
       [id |-> "L2", title |-> <<"lov">>, content |-> <<"varsel">>,
        domainId |-> "d2"],
       [id |-> "L3", title |-> <<"købeloven">>, content |-> <<"køb">>,
        domainId |-> "d1"] >>

LawTextIds == { InitialLawTexts[i].id : i \in 1..Len(InitialLawTexts) }

\* The user texts submitted through the message route.
Queries == { <<"opsigelse">>, <<"skat">>, <<"hvad">> }

\* The domainIds arrays a request body carries (absent is modelled as <<>>).
DomainFilters == { <<>>, <<"d1">> }

(***************************************************************************)
(* EmbeddingsService.generateEmbedding (schema.ts 161-172).                *)
(***************************************************************************)
RECURSIVE CollapseWhitespace(_)
\* text.replace(/\s+/g, " "): every run of whitespace becomes one space.
CollapseWhitespace(s) ==
    IF s = <<>> THEN <<>>
    ELSE IF Head(s) \in Whitespace
         THEN IF Len(s) > 1 /\ s[2] \in Whitespace
              THEN CollapseWhitespace(Tail(s))
              ELSE <<SP>> \o CollapseWhitespace(Tail(s))
         ELSE <<Head(s)>> \o CollapseWhitespace(Tail(s))

RECURSIVE TrimStart(_)
TrimStart(s) == IF s # <<>> /\ Head(s) \in Whitespace THEN TrimStart(Tail(s)) ELSE s

RECURSIVE TrimEnd(_)
TrimEnd(s) == IF s # <<>> /\ s[Len(s)] \in Whitespace
              THEN TrimEnd(SubSeq(s, 1, Len(s) - 1)) ELSE s

\* String.prototype.trim.
Trim(s) == TrimEnd(TrimStart(s))

\* A cleaning that trims the ends and leaves inner whitespace as it is.
CleanTextTrimOnly(text) == Trim(text)

CleanText(text) == Trim(CollapseWhitespace(text))

\* The feature-extraction model with pooling "mean" and normalize true: a
\* deterministic function from the cleaned text to a unit vector.  The
\* vectors are chosen so that their cosines are 1.00, 0.60, 0.30, 0.10, 0
\* and the negatives of these.
ModelVector(cleaned) ==
    IF "opsigelse" \in Range(cleaned) THEN <<10, 0, 0, 0>>
    ELSE IF "varsel" \in Range(cleaned) THEN <<3, 9, 3, 1>>
    ELSE IF "køb" \in Range(cleaned) THEN <<6, 8, 0, 0>>
    ELSE IF "skat" \in Range(cleaned) THEN <<-10, 0, 0, 0>>
    ELSE <<0, 0, 0, 10>>

generateEmbedding(text) == ModelVector(CleanText(text))

\* content.substring(0, 1000) in the text that is embedded for a law text.
EmbeddingContentLen == 1000

\* [title, lawNumber, chapter, section, paragraph, content].filter(Boolean).join(" ")
textForEmbedding(lawText) ==
    lawText.title \o <<SP>> \o Substring0(lawText.content, EmbeddingContentLen)

(***************************************************************************)
(* pgvector cosine distance and the similarity column of                   *)
(* searchSimilarTexts (storage.ts 181): 1 - (embedding <=> query).         *)
(***************************************************************************)
RECURSIVE Dot(_, _)
Dot(a, b) == IF a = <<>> \/ b = <<>> THEN 0
             ELSE Head(a) * Head(b) + Dot(Tail(a), Tail(b))

\* Integer square root of a perfect square below 10000.
Norm(a) == CHOOSE n \in 0..100 : n * n = Dot(a, a)

\* 1 - cosineDistance, in hundredths.
Similarity(embedding, queryEmbedding) ==
    100 - (100 - (100 * Dot(embedding, queryEmbedding))
                    \div (Norm(embedding) * Norm(queryEmbedding)))

(***************************************************************************)
(* DatabaseStorage.searchSimilarTexts (storage.ts 161-196).                *)
(***************************************************************************)
LawTextById(laws, id) == CHOOSE l \in Range(laws) : l.id = id

\* One row of the select: the law text columns plus the similarity column.
SearchRow(law, embedding, queryEmbedding) ==
    [id |-> law.id, title |-> law.title, content |-> law.content,
     domainId |-> law.domainId,
     similarity |-> Similarity(embedding, queryEmbedding)]

\* inArray applied whatever the length of domainIds: an empty array matches
\* no row.
WhereClauseAlwaysInArray(domainId, domainIds) == domainId \in Range(domainIds)

\* whereClause: inArray(lawTexts.domainId, domainIds) when domainIds is a
\* non-empty array, no restriction otherwise.
WhereClause(domainId, domainIds) ==
    IF Len(domainIds) > 0 THEN domainId \in Range(domainIds) ELSE TRUE

\* A search over law_texts itself: one row per law text that passes the
\* filter, whether or not text_embeddings has a row for it.
JoinedRowsFromLawTexts(embs, laws, queryEmbedding, domainIds) ==
    LET passing == SelectSeq(laws, LAMBDA l : WhereClause(l.domainId, domainIds))
    IN  [i \in 1..Len(passing) |->
            SearchRow(passing[i], <<10, 0, 0, 0>>, queryEmbedding)]

\* from text_embeddings inner join law_texts, filtered, in store order.
JoinedRows(embs, laws, queryEmbedding, domainIds) ==
    LET joinable == SelectSeq(embs, LAMBDA e :
                        /\ \E l \in Range(laws) : l.id = e.lawTextId
                        /\ WhereClause(LawTextById(laws, e.lawTextId).domainId, domainIds))
    IN  [i \in 1..Len(joinable) |->
            SearchRow(LawTextById(laws, joinable[i].lawTextId),
                      joinable[i].embedding, queryEmbedding)]

\* ORDER BY embedding <=> query: any arrangement of the rows by ascending
\* distance; SQL leaves the relative order of rows of equal distance open.
OrderByDistance(rows) ==
    LET n == Len(rows)
        perms == { p \in [1..n -> 1..n] :
                      /\ \A i, j \in 1..n : i # j => p[i] # p[j]
                      /\ \A i \in 1..(n - 1) :
                            rows[p[i]].similarity >= rows[p[i + 1]].similarity }
    IN  { [i \in 1..n |-> rows[p[i]]] : p \in perms }

\* The possible results of one searchSimilarTexts call.
searchSimilarTexts(embs, laws, queryEmbedding, domainIds, limit) ==
    { Substring0(o, limit) :
        o \in OrderByDistance(JoinedRows(embs, laws, queryEmbedding, domainIds)) }

\* DatabaseStorage.getLawTexts (storage.ts 89-112), rows in store order.
getLawTexts(laws, domainIds) ==
    SelectSeq(laws, LAMBDA l : WhereClause(l.domainId, domainIds))

(***************************************************************************)
(* ChatService: the deployed revision of server/services/chat.ts.          *)
(*   "semantic": vector retrieval, rule-based local responder (chat.ts)    *)
(*   "pending" : vector retrieval, callLLM is a stub that throws           *)
(*   "floor"   : vector retrieval with a similarity floor, HTTP backend    *)
(*   "keyword" : keyword retrieval with a mock score, local responder      *)
(***************************************************************************)
Revisions == {"semantic", "pending", "floor", "keyword"}

\* limit passed to searchSimilarLawTexts by generateResponse.
TopK == 5

\* similarTexts.filter(text => text.similarity > 0.3), in hundredths.
SimilarityFloor == 30

\* similarity: 0.85 attached by the keyword retrieval, in hundredths.
MockSimilarity == 85

\* content.substring(0, 500) in a context block.
ExcerptLen == 500

\* content.substring(0, 200) in a citation snippet.
SnippetLen == 200

\* The search terms a token contains as a substring (lower-cased).
TermsOf(tok) ==
    CASE tok = "opsigelse" -> {"opsigelse"}
      [] tok = "varsel" -> {"varsel"}
      [] tok = "køb" -> {"køb"}
      [] tok = "skat" -> {"skat"}
      [] tok = "funktionærloven" -> {"funktionær"}
      [] tok = "købeloven" -> {"køb"}
      [] OTHER -> {}

\* text.toLowerCase().includes(term)
IncludesTerm(text, term) == \E i \in 1..Len(text) : term \in TermsOf(text[i])

\* Keyword retrieval of the "keyword" revision.
EmploymentTerms == {"opsigelse", "ansættelse", "kontrakt", "varsel", "funktionær", "arbejder"}

KeywordRetrieval(query, laws) ==
    IF \E term \in EmploymentTerms : IncludesTerm(query, term)
    THEN LET hits == SelectSeq(laws, LAMBDA text :
                        \/ IncludesTerm(text.content, "opsigelse")
                        \/ IncludesTerm(text.content, "ansættelse")
                        \/ IncludesTerm(text.content, "varsel")
                        \/ IncludesTerm(text.title, "funktionær"))
         IN  [i \in 1..Len(hits) |->
                [id |-> hits[i].id, title |-> hits[i].title,
                 content |-> hits[i].content, domainId |-> hits[i].domainId,
                 similarity |-> MockSimilarity]]
    ELSE <<>>

\* The texts generateResponse keeps out of a search result.
RelevantTexts(rev, similarTexts) ==
    IF rev = "floor"
    THEN SelectSeq(similarTexts, LAMBDA text : text.similarity > SimilarityFloor)
    ELSE similarTexts

\* One block of the context; the relevance percentage is printed by the
\* "semantic" and "pending" revisions only.
ContextBlock(rev, text, index) ==
    <<"[", ToString(index), "]">> \o text.title \o <<"(N/A)">>
    \o (IF rev \in {"semantic", "pending"}
        THEN <<"- Relevance:", ToString(text.similarity), "%">> ELSE <<>>)
    \o <<NL, SP, NL>> \o Substring0(text.content, ExcerptLen) \o <<"...", NL>>

RECURSIVE JoinBlocks(_, _, _)
\* relevantTexts.map(block).join('\n'), blocks numbered from index.
JoinBlocks(rev, texts, index) ==
    IF texts = <<>> THEN <<>>
    ELSE ContextBlock(rev, Head(texts), index)
         \o (IF Len(texts) > 1 THEN <<NL>> ELSE <<>>)
         \o JoinBlocks(rev, Tail(texts), index + 1)

Context(rev, relevantTexts) == JoinBlocks(rev, relevantTexts, 1)

GroundedPrompt(rev, query, relevantTexts) ==
    <<"Du er en dansk juridisk AI-assistent. (lovbestemmelser nedenfor)", NLNL, SPM>>
    \o query \o <<NLNL, REL, NL>> \o Context(rev, relevantTexts)
    \o <<NLNL, INS, NL, "- Brug kun informationen fra de angivne lovbestemmelser",
         NLNL, SVAR>>

FallbackPrompt(query) ==
    <<"Du er en dansk juridisk AI-assistent. (dansk lovgivning)", NLNL, SPM>>
    \o query
    \o <<NLNL, INS, NL, "- Anbefal at konsultere en juridisk ekspert",
         NLNL, SVAR>>

\* Compose without the branch on relevantTexts.length.
ComposeAlwaysGrounded(rev, query, relevantTexts) ==
    GroundedPrompt(rev, query, relevantTexts)

\* Compose with the question left out of both templates.
ComposeWithoutQuery(rev, query, relevantTexts) ==
    IF Len(relevantTexts) > 0 THEN GroundedPrompt(rev, <<>>, relevantTexts)
    ELSE FallbackPrompt(<<>>)

\* The prompt generateResponse prepares once retrieval found relevantTexts.
Compose(rev, query, relevantTexts) ==
    IF Len(relevantTexts) > 0 THEN GroundedPrompt(rev, query, relevantTexts)
    ELSE FallbackPrompt(query)

\* Citation with the score rounded to one decimal.
CitationRounded(text) ==
    [lawTextId |-> text.id,
     relevanceScore |-> ((text.similarity + 5) \div 10) * 10,
     snippet |-> Substring0(text.content, SnippetLen) \o <<"...">>]

\* relevantTexts.map(text => ({lawTextId, relevanceScore, snippet})).
Citation(text) ==
    [lawTextId |-> text.id,
     relevanceScore |-> text.similarity,
     snippet |-> Substring0(text.content, SnippetLen) \o <<"...">>]

\* BuildCitations over the candidates in reverse rank order.
BuildCitationsReversed(relevantTexts) ==
    [i \in 1..Len(relevantTexts) |->
        Citation(relevantTexts[Len(relevantTexts) + 1 - i])]

BuildCitations(relevantTexts) ==
    [i \in 1..Len(relevantTexts) |-> Citation(relevantTexts[i])]

(***************************************************************************)
(* The answer backends behind callLLM.                                     *)
(***************************************************************************)
\* prompt.match(/open(.*?)close/s): the lazy group of the leftmost match,
\* or "none" when the pattern does not match.
LazyGroup(s, open, close) ==
    LET i == IndexOfFrom(s, open, 1)
        j == IF i = 0 THEN 0 ELSE IndexOfFrom(s, close, i + Len(open))
    IN  IF j = 0 THEN [matched |-> FALSE, group |-> <<>>]
        ELSE [matched |-> TRUE, group |-> SubSeq(s, i + Len(open), j - 1)]

\* questionMatch ? questionMatch[1].trim() : ''
GroupOrEmpty(m) == IF m.matched THEN Trim(m.group) ELSE <<>>

\* The topic branch shared by analyzeLegalQuestion and
\* generateGeneralLegalGuidance (chat.ts 194-220, 238-258).
TopicOf(question, general) ==
    IF IncludesTerm(question, "opsigelse") \/ IncludesTerm(question, "ansættelse")
    THEN "arbejdsret"
    ELSE IF IncludesTerm(question, "forbruger") \/ IncludesTerm(question, "køb")
    THEN "forbruger"
    ELSE IF IncludesTerm(question, "selskab")
            \/ (general /\ IncludesTerm(question, "virksomhed"))
    THEN "selskab"
    ELSE IF general /\ (IncludesTerm(question, "skat") \/ IncludesTerm(question, "moms"))
    THEN "skat"
    ELSE "generel"

\* context.split(/\[\d+\]/).filter(section => section.trim()): the number
\* of non-blank pieces around the block markers.
RECURSIVE LawSectionCount(_, _)
LawSectionCount(context, pending) ==
    IF context = <<>> THEN (IF pending THEN 1 ELSE 0)
    ELSE IF Len(context) >= 3 /\ context[1] = "[" /\ context[3] = "]"
         THEN (IF pending THEN 1 ELSE 0)
              + LawSectionCount(SubSeq(context, 4, Len(context)), FALSE)
         ELSE LawSectionCount(Tail(context),
                              pending \/ Head(context) \notin Whitespace)

generateResponseWithContext(question, context) ==
    LET sections == LawSectionCount(context, FALSE)
    IN  <<"**Juridisk vejledning baseret på relevante lovbestemmelser:**">>
        \o (IF sections > 0
            THEN <<"analyse", TopicOf(question, FALSE), "**Relevante lovbestemmelser:**">>
            ELSE <<"Ingen specifikke lovbestemmelser blev fundet for dette spørgsmål.">>)
        \o <<"*Dette er juridisk vejledning*">>

generateGeneralLegalGuidance(question) ==
    <<"**Juridisk vejledning:**", TopicOf(question, TRUE), "**Næste skridt:**">>

\* chat.ts 137-158.
generateContextAwareResponse(prompt) ==
    IF Includes(prompt, <<REL>>)
    THEN generateResponseWithContext(
             GroupOrEmpty(LazyGroup(prompt, <<SPM>>, <<NLNL, REL>>)),
             GroupOrEmpty(LazyGroup(prompt, <<REL, NL>>, <<NLNL, INS>>)))
    ELSE generateGeneralLegalGuidance(
             GroupOrEmpty(LazyGroup(prompt, <<SPM>>, <<NLNL, INS>>)))

\* callLocalLLM of the "keyword" revision: a canned answer per concept
\* found in the prompt.
KeywordLocalLLM(prompt) ==
    IF IncludesTerm(prompt, "opsigelse") THEN <<"**Vedrørende opsigelse:**">>
    ELSE IF IncludesTerm(prompt, "ansættelse") \/ IncludesTerm(prompt, "kontrakt")
    THEN <<"**Vedrørende ansættelse:**">>
    ELSE IF IncludesTerm(prompt, "funktionær") THEN <<"**Vedrørende funktionærer:**">>
    ELSE <<"**Juridisk vejledning:**">>

\* What the HTTP backend of the "floor" revision can do with one request:
\* answer 200 with or without a text, answer with an error status, or fail
\* below HTTP (connection refused, reset, aborted).
HttpOutcomes == {"text", "empty", "401", "400", "429", "503", "network"}

\* response.ok
ResponseOk(outcome) == outcome \in {"text", "empty"}

\* An answer text produced by the remote model.
RemoteAnswerText == <<"svar fra LLM">>

\* The backend a revision of callLLM calls first; "none" for the stub.
BackendOf(rev) ==
    CASE rev \in {"semantic", "keyword"} -> "local"
      [] rev = "floor" -> "http"
      [] OTHER -> "none"

\* A callLLM that falls through to its fallback after the backend answered.
callLLMFallsThrough(rev, prompt, outcome) ==
    [raised |-> FALSE,
     text |-> IF rev = "floor" THEN LLMUnavailableText ELSE IntelligentFallbackText,
     attempts |-> <<BackendOf(rev), "fallback">>]

\* A callLLM that sends the request a second time after an error status.
callLLMRetries(rev, prompt, outcome) ==
    CASE rev = "semantic" ->
            [raised |-> FALSE, text |-> generateContextAwareResponse(prompt),
             attempts |-> <<"local">>]
      [] rev = "keyword" ->
            [raised |-> FALSE, text |-> KeywordLocalLLM(prompt),
             attempts |-> <<"local">>]
      [] rev = "floor" ->
            IF ResponseOk(outcome)
            THEN [raised |-> FALSE,
                  text |-> IF outcome = "text" THEN RemoteAnswerText
                           ELSE NoLLMAnswerText,
                  attempts |-> <<"http">>]
            ELSE [raised |-> FALSE, text |-> LLMUnavailableText,
                  attempts |-> <<"http", "http", "fallback">>]
      [] rev = "pending" ->
            [raised |-> TRUE, text |-> <<>>, attempts |-> <<>>]

\* callLLM: the result of one call, either a returned text or a throw, and
\* the backends it invoked, in order ("fallback" is the text of the catch
\* block).  outcome is the behaviour of the HTTP backend; it is read by the
\* "floor" revision only: the local responders do not fail.
callLLM(rev, prompt, outcome) ==
    CASE rev = "semantic" ->
            [raised |-> FALSE, text |-> generateContextAwareResponse(prompt),
             attempts |-> <<"local">>]
      [] rev = "keyword" ->
            [raised |-> FALSE, text |-> KeywordLocalLLM(prompt),
             attempts |-> <<"local">>]
      [] rev = "floor" ->
            IF ResponseOk(outcome)
            THEN [raised |-> FALSE,
                  text |-> IF outcome = "text" THEN RemoteAnswerText
                           ELSE NoLLMAnswerText,
                  attempts |-> <<"http">>]
            ELSE [raised |-> FALSE, text |-> LLMUnavailableText,
                  attempts |-> <<"http", "fallback">>]
      [] rev = "pending" ->
            [raised |-> TRUE, text |-> <<>>, attempts |-> <<>>]

(***************************************************************************)
(* State.                                                                  *)
(***************************************************************************)
VARIABLES
    revision,        \* the ChatService revision that is deployed
    lawTexts,        \* law_texts rows in store order
    textEmbeddings,  \* text_embeddings rows in store order
    messages,        \* chat_messages rows in insertion order; id = position
    updatedAt,       \* chat_sessions.updated_at per session
    clock,           \* the database clock behind defaultNow() and new Date()
    calls,           \* the processUserMessage / regenerateResponse calls
    searchResponse,  \* the last response of POST /api/search
    ingestResponse,  \* the outcome of the last storage.createTextEmbedding call
    syncResponse,    \* the last run of RetsinformationService.syncLawTexts
    encoder,         \* the EmbeddingsService and its generateEmbedding calls
    bulkResponse,    \* the last run of POST /api/admin/generate-embeddings
    client           \* the chat page: useChat state and the send handler in flight

vars == <<revision, lawTexts, textEmbeddings, messages, updatedAt, clock,
          calls, searchResponse, ingestResponse, syncResponse, encoder,
          bulkResponse, client>>

Calls == 1..MaxCalls

\* A call slot that has not been used yet.
IdleCall ==
    [kind |-> "none", pc |-> "idle", sessionId |-> "", query |-> <<>>,
     domainIds |-> <<>>, target |-> 0, similarTexts |-> <<>>,
     relevantTexts |-> <<>>, raisedBy |-> "none", llmRaised |-> FALSE,
     prompt |-> <<>>, content |-> <<>>, citations |-> <<>>,
     error |-> "none", userMsg |-> 0, asstMsg |-> 0,
     backend |-> "none", attempts |-> <<>>, after |-> {}]

\* No search has been answered yet.
NoSearch == [asked |-> FALSE, embeddings |-> <<>>, queryEmbedding |-> <<>>,
             domainIds |-> <<>>, limit |-> 0, rows |-> <<>>]

\* storage.createTextEmbedding has not been called directly yet.
NoIngest == [asked |-> FALSE, lawTextId |-> "", embedding |-> <<>>,
             error |-> "none"]

\* The callers of EmbeddingsService.generateEmbedding that can overlap.
EncoderCallers == 1..MaxEncoderCallers

\* A caller that is not inside generateEmbedding.
NoEncoderCall == [pc |-> "idle", text |-> <<>>, cleanedText |-> <<>>,
                  embedding |-> <<>>]

\* private model = null; no pipeline() call has been made.
InitialEncoder == [model |-> "null", loads |-> 0, failures |-> 0,
                   callers |-> [k \in EncoderCallers |-> NoEncoderCall]]

\* processLawTextsEmbeddings has not run yet.
NoBulk == [asked |-> FALSE, before |-> <<>>, after |-> <<>>, processed |-> 0,
           storeErrors |-> 0, encoderErrors |-> 0, status |-> 0]

\* The chat page opened without a session id in its route: no session is
\* active (0), nothing was created or posted, no handler is running.
InitialClient ==
    [pc |-> "idle", state |-> 0, rendered |-> 0, closure |-> 0,
     message |-> <<>>, domainIds |-> <<>>, sends |-> 0,
     created |-> <<>>, posted |-> <<>>, error |-> "none"]

\* syncLawTexts has not run yet.
NoSync == [asked |-> FALSE, fullSync |-> FALSE, documents |-> <<>>]

Init ==
    /\ revision \in Revisions
    /\ lawTexts = InitialLawTexts
    /\ textEmbeddings = <<>>
    /\ messages = <<>>
    /\ updatedAt = [s \in Sessions |-> 0]
    /\ clock = 0
    /\ calls = [c \in Calls |-> IdleCall]
    /\ searchResponse = NoSearch
    /\ ingestResponse = NoIngest
    /\ syncResponse = NoSync
    /\ encoder = InitialEncoder
    /\ bulkResponse = NoBulk
    /\ client = InitialClient

(***************************************************************************)
(* DatabaseStorage: chat messages (storage.ts 254-306).                    *)
(***************************************************************************)
\* A row whose citations column is not written.
NewMessageWithoutCitations(msgs, now, sessionId, role, content, citations) ==
    [id |-> Len(msgs) + 1, sessionId |-> sessionId, role |-> role,
     content |-> content, citations |-> <<>>, createdAt |-> now]

\* The row createChatMessage inserts; id and createdAt are column defaults.
NewMessage(msgs, now, sessionId, role, content, citations) ==
    [id |-> Len(msgs) + 1, sessionId |-> sessionId, role |-> role,
     content |-> content, citations |-> citations, createdAt |-> now]

\* An update in place: the new row takes the place of the latest one.
createChatMessageInPlace(msgs, now, sessionId, role, content, citations) ==
    IF msgs = <<>> \/ role = "user"
    THEN Append(msgs, NewMessage(msgs, now, sessionId, role, content, citations))
    ELSE [msgs EXCEPT ![Len(msgs)] =
            [NewMessage(msgs, now, sessionId, role, content, citations)
                EXCEPT !.id = Len(msgs)]]

createChatMessage(msgs, now, sessionId, role, content, citations) ==
    Append(msgs, NewMessage(msgs, now, sessionId, role, content, citations))

RECURSIVE InsertByCreatedAt(_, _)
InsertByCreatedAt(sorted, m) ==
    IF sorted = <<>> THEN <<m>>
    ELSE IF sorted[Len(sorted)].createdAt <= m.createdAt THEN Append(sorted, m)
    ELSE Append(InsertByCreatedAt(SubSeq(sorted, 1, Len(sorted) - 1), m),
                sorted[Len(sorted)])

RECURSIVE OrderByCreatedAt(_)
\* A stable sort by createdAt.
OrderByCreatedAt(rows) ==
    IF rows = <<>> THEN <<>>
    ELSE InsertByCreatedAt(OrderByCreatedAt(SubSeq(rows, 1, Len(rows) - 1)),
                           rows[Len(rows)])

\* where session_id = sessionId order by created_at.
getChatMessages(msgs, sessionId) ==
    OrderByCreatedAt(SelectSeq(msgs, LAMBDA m : m.sessionId = sessionId))

(***************************************************************************)
(* ChatService.regenerateResponse, up to the two lookups (chat.ts 319-342).*)
(***************************************************************************)
\* Array.prototype.findIndex, 1-based; 0 when no element has the id.
FindIndexById(rows, id) ==
    LET hits == { i \in 1..Len(rows) : rows[i].id = id }
    IN  IF hits = {} THEN 0 ELSE CHOOSE i \in hits : \A j \in hits : i <= j

\* A lookup over every stored message that takes whatever message precedes
\* the target, without looking at its role.
RegenerateLookupAnyPredecessor(msgs, messageId) ==
    LET allMessages == OrderByCreatedAt(msgs)
        at == FindIndexById(allMessages, messageId)
    IN  IF at = 0 \/ allMessages[at].role # "assistant"
        THEN [found |-> FALSE, sessionId |-> "", userText |-> <<>>]
        ELSE LET sessionMessages ==
                     OrderByCreatedAt(SelectSeq(allMessages, LAMBDA m :
                         m.sessionId = allMessages[at].sessionId))
                 messageIndex == FindIndexById(sessionMessages, messageId)
             IN  IF messageIndex - 1 < 1
                 THEN [found |-> FALSE, sessionId |-> "", userText |-> <<>>]
                 ELSE [found |-> TRUE,
                       sessionId |-> allMessages[at].sessionId,
                       userText |-> sessionMessages[messageIndex - 1].content]

RegenerateLookup(msgs, messageId) ==
    LET allMessages == getChatMessages(msgs, EmptySessionId)
        at == FindIndexById(allMessages, messageId)
    IN  IF at = 0 \/ allMessages[at].role # "assistant"
        THEN [found |-> FALSE, sessionId |-> "", userText |-> <<>>]
        ELSE LET messageToRegenerate == allMessages[at]
                 sessionMessages ==
                     OrderByCreatedAt(SelectSeq(allMessages, LAMBDA m :
                         m.sessionId = messageToRegenerate.sessionId))
                 messageIndex == FindIndexById(sessionMessages, messageId)
             IN  IF messageIndex - 1 < 1
                    \/ sessionMessages[messageIndex - 1].role # "user"
                 THEN [found |-> FALSE, sessionId |-> "", userText |-> <<>>]
                 ELSE [found |-> TRUE,
                       sessionId |-> messageToRegenerate.sessionId,
                       userText |-> sessionMessages[messageIndex - 1].content]

(***************************************************************************)
(* ChatService.generateResponse (chat.ts 17-106), in the two awaits that   *)
(* separate its steps: the retrieval and the call of the backend.          *)
(***************************************************************************)
\* A catch block that logs and throws the error again.
CatchBlockRethrows(error) ==
    [content |-> <<>>, citations |-> <<>>, rethrown |-> TRUE]

\* The catch block of generateResponse: what the call returns, and whether
\* the error leaves generateResponse.
CatchBlock(error) ==
    [content |-> FallbackText, citations |-> <<>>, rethrown |-> FALSE]

\* The outcomes of the awaited retrieval: the encoder or the store may throw.
RetrievalOutcomes(rev) ==
    IF rev = "keyword" THEN {"ok", "store"} ELSE {"ok", "encoder", "store"}

\* The candidate lists the retrieval of a revision can return.
Retrieved(rev, embs, laws, query, domainIds) ==
    IF rev = "keyword"
    THEN { KeywordRetrieval(query, getLawTexts(laws, domainIds)) }
    ELSE searchSimilarTexts(embs, laws, generateEmbedding(query), domainIds, TopK)

\* The "floor" and "keyword" revisions return early when nothing is relevant.
ReturnsNotFound(rev, relevantTexts) ==
    rev \in {"floor", "keyword"} /\ Len(relevantTexts) = 0

\* The call record after the error of a step was handled.
AfterError(call, by) ==
    LET handled == CatchBlock(by)
    IN  IF handled.rethrown
        THEN [call EXCEPT !.pc = "failed", !.raisedBy = by, !.error = by]
        ELSE [call EXCEPT !.pc = "persisting", !.raisedBy = by,
                          !.content = handled.content,
                          !.citations = handled.citations]

Retrieve(c) ==
    /\ calls[c].pc = "retrieving"
    /\ \E outcome \in RetrievalOutcomes(revision) :
         IF outcome # "ok"
         THEN calls' = [calls EXCEPT ![c] = AfterError(@, outcome)]
         ELSE \E similarTexts \in Retrieved(revision, textEmbeddings, lawTexts,
                                            calls[c].query, calls[c].domainIds) :
                LET relevantTexts == RelevantTexts(revision, similarTexts)
                IN  calls' = [calls EXCEPT ![c] =
                        IF ReturnsNotFound(revision, relevantTexts)
                        THEN [@ EXCEPT !.pc = "persisting",
                                       !.similarTexts = similarTexts,
                                       !.relevantTexts = relevantTexts,
                                       !.content = NotFoundText,
                                       !.citations = <<>>]
                        ELSE [@ EXCEPT !.pc = "generating",
                                       !.similarTexts = similarTexts,
                                       !.relevantTexts = relevantTexts]]
    /\ UNCHANGED <<revision, lawTexts, textEmbeddings, messages, updatedAt,
                   clock, searchResponse, ingestResponse, syncResponse,
                   encoder, bulkResponse, client>>

Generate(c) ==
    /\ calls[c].pc = "generating"
    /\ \E outcome \in (IF revision = "floor" THEN HttpOutcomes ELSE {"text"}) :
         LET prompt == Compose(revision, calls[c].query, calls[c].relevantTexts)
             llmResponse == callLLM(revision, prompt, outcome)
         IN  calls' = [calls EXCEPT ![c] =
                 IF llmResponse.raised
                 THEN [AfterError([@ EXCEPT !.prompt = prompt], "llm")
                          EXCEPT !.llmRaised = TRUE, !.backend = outcome,
                                 !.attempts = llmResponse.attempts]
                 ELSE [@ EXCEPT !.pc = "persisting",
                                !.prompt = prompt,
                                !.backend = outcome,
                                !.attempts = llmResponse.attempts,
                                !.content = llmResponse.text,
                                !.citations = BuildCitations(calls[c].relevantTexts)]]
    /\ UNCHANGED <<revision, lawTexts, textEmbeddings, messages, updatedAt,
                   clock, searchResponse, ingestResponse, syncResponse,
                   encoder, bulkResponse, client>>

(***************************************************************************)
(* ChatService.processUserMessage (chat.ts 282-317) and the tail of        *)
(* regenerateResponse (chat.ts 344-365).                                   *)
(***************************************************************************)
\* The outcomes of one awaited database statement.
DbOutcomes == {"ok", "error"}

\* The index after updateEmbeddingForLawText ran for L1 and for L2.
IndexedL1L2 ==
    << [lawTextId |-> "L1", embedding |-> <<10, 0, 0, 0>>],
       [lawTextId |-> "L2", embedding |-> <<3, 9, 3, 1>>] >>

\* The texts submitted as chat messages.
ChatQueries == { <<"opsigelse">>, <<"hvad">> }

\* The session the calls that run one at a time belong to.
SequentialSessions == {"s1"}

ConcurrentFilters == { <<>> }

\* The assistant messages that the running calls have yet to insert.
Reserved == Cardinality({ c \in Calls :
                calls[c].pc \in {"retrieving", "generating", "persisting"} })

\* Call slots are taken in order.
FirstIdle(c) == /\ calls[c].pc = "idle"
                /\ \A d \in Calls : d < c => calls[d].pc # "idle"

\* POST /api/chat-sessions/:sessionId/messages up to the first insert.
StartTurn(c, sessions, filters, dbs, cap) ==
    /\ FirstIdle(c)
    /\ Len(messages) + Reserved + 2 <= cap
    /\ \E sessionId \in sessions, userMessage \in ChatQueries,
          domainIds \in filters, db \in dbs :
         LET call == [IdleCall EXCEPT !.kind = "turn", !.sessionId = sessionId,
                                      !.query = userMessage,
                                      !.domainIds = domainIds]
         IN  IF db = "error"
             THEN /\ calls' = [calls EXCEPT ![c] =
                        [call EXCEPT !.pc = "failed", !.error = "storage"]]
                  /\ UNCHANGED <<messages, clock>>
             ELSE /\ clock' = clock + 1
                  /\ messages' = createChatMessage(messages, clock', sessionId,
                                                   "user", userMessage, <<>>)
                  /\ calls' = [calls EXCEPT ![c] =
                        [call EXCEPT !.pc = "retrieving",
                                     !.userMsg = Len(messages) + 1]]
    /\ UNCHANGED <<revision, lawTexts, textEmbeddings, updatedAt,
                   searchResponse, ingestResponse, syncResponse,
                   encoder, bulkResponse, client>>

\* POST /api/messages/:messageId/regenerate up to the two lookups.  The id
\* 0 stands for an id that no message has.
StartRegenerate(c, filters, cap) ==
    /\ FirstIdle(c)
    /\ \E messageId \in 0..Len(messages), domainIds \in filters :
         LET found == RegenerateLookup(messages, messageId)
             call == [IdleCall EXCEPT !.kind = "regenerate",
                                      !.target = messageId,
                                      !.domainIds = domainIds]
         IN  /\ found.found => Len(messages) + Reserved + 1 <= cap
             /\ calls' = [calls EXCEPT ![c] =
                 IF found.found
                 THEN [call EXCEPT !.pc = "retrieving",
                                   !.sessionId = found.sessionId,
                                   !.query = found.userText]
                 ELSE [call EXCEPT !.pc = "failed", !.error = "NotFound"]]
    /\ UNCHANGED <<revision, lawTexts, textEmbeddings, messages, updatedAt,
                   clock, searchResponse, ingestResponse, syncResponse,
                   encoder, bulkResponse, client>>

\* storage.createChatMessage of the assistant message.
Persist(c, dbs) ==
    /\ calls[c].pc = "persisting"
    /\ \E db \in dbs :
         IF db = "error"
         THEN /\ calls' = [calls EXCEPT ![c] =
                    [@ EXCEPT !.pc = "failed", !.error = "storage"]]
              /\ UNCHANGED <<messages, clock>>
         ELSE /\ clock' = clock + 1
              /\ messages' = createChatMessage(messages, clock', calls[c].sessionId,
                                 "assistant", calls[c].content, calls[c].citations)
              /\ calls' = [calls EXCEPT ![c] =
                    [@ EXCEPT !.pc = IF calls[c].kind = "turn" THEN "touching" ELSE "done",
                              !.asstMsg = Len(messages) + 1]]
    /\ UNCHANGED <<revision, lawTexts, textEmbeddings, updatedAt,
                   searchResponse, ingestResponse, syncResponse,
                   encoder, bulkResponse, client>>

\* An updateChatSession issued before the assistant message is inserted.
TouchEarly(c, dbs) ==
    /\ calls[c].pc = "persisting"
    /\ calls[c].kind = "turn"
    /\ updatedAt[calls[c].sessionId] # clock
    /\ \E db \in dbs :
         /\ updatedAt' = [updatedAt EXCEPT ![calls[c].sessionId] = clock]
         /\ UNCHANGED <<clock, calls>>
    /\ UNCHANGED <<revision, lawTexts, textEmbeddings, messages,
                   searchResponse, ingestResponse, syncResponse,
                   encoder, bulkResponse, client>>

\* storage.updateChatSession(sessionId, {}) and the return.
Touch(c, dbs) ==
    /\ calls[c].pc = "touching"
    /\ \E db \in dbs :
         IF db = "error"
         THEN /\ calls' = [calls EXCEPT ![c] =
                    [@ EXCEPT !.pc = "failed", !.error = "storage"]]
              /\ UNCHANGED <<updatedAt, clock>>
         ELSE /\ updatedAt' = [updatedAt EXCEPT ![calls[c].sessionId] = clock]
              /\ UNCHANGED clock
              /\ calls' = [calls EXCEPT ![c] = [@ EXCEPT !.pc = "done"]]
    /\ UNCHANGED <<revision, lawTexts, textEmbeddings, messages,
                   searchResponse, ingestResponse, syncResponse,
                   encoder, bulkResponse, client>>

\* The route handler has answered (201, 200 or 500) and its frame is gone.
Return(c) ==
    /\ calls[c].pc \in {"done", "failed"}
    /\ calls' = [calls EXCEPT ![c] = IdleCall]
    /\ UNCHANGED <<revision, lawTexts, textEmbeddings, messages, updatedAt,
                   clock, searchResponse, ingestResponse, syncResponse,
                   encoder, bulkResponse, client>>

(***************************************************************************)
(* EmbeddingsService.updateEmbeddingForLawText (schema.ts 249-273) and     *)
(* POST /api/search (deepseek.ts 234-253).                                 *)
(***************************************************************************)
\* The number of components of the column text_embeddings.embedding.  The
\* model's vectors have 4 components where the column has 384.
Dimensions == 4

\* vector("embedding", { dimensions: 384 }): the column takes a value of
\* exactly that many components; the insert of any other fails.
VectorColumnAccepts(embedding) == Len(embedding) = Dimensions

\* An insert into a column that does not fix the number of components.
createTextEmbeddingUnchecked(embs, lawTextId, embedding) ==
    Append(embs, [lawTextId |-> lawTextId, embedding |-> embedding])

\* The table after the insert statement; a rejected insert adds no row.
createTextEmbedding(embs, lawTextId, embedding) ==
    IF VectorColumnAccepts(embedding)
    THEN Append(embs, [lawTextId |-> lawTextId, embedding |-> embedding])
    ELSE embs

\* The vectors an ingestion job hands to storage.createTextEmbedding: of
\* the column's size, shorter, longer, empty.
IngestVectors ==
    { <<10, 0, 0, 0>>, <<0, 0, 0, 10>>, <<10, 0, 0>>, <<6, 8, 0, 0, 0>>, <<>> }

\* storage.createTextEmbedding called with a vector of the caller.
CreateTextEmbedding ==
    /\ Len(textEmbeddings) < MaxEmbeddings
    /\ \E lawTextId \in LawTextIds, embedding \in IngestVectors :
         /\ textEmbeddings' = createTextEmbedding(textEmbeddings, lawTextId, embedding)
         /\ ingestResponse' =
                [asked |-> TRUE, lawTextId |-> lawTextId, embedding |-> embedding,
                 error |-> IF VectorColumnAccepts(embedding) THEN "none"
                           ELSE "DimensionMismatch"]
    /\ UNCHANGED <<revision, lawTexts, messages, updatedAt, clock, calls,
                   searchResponse, syncResponse, encoder, bulkResponse,
                   client>>

UpdateEmbeddingForLawText ==
    /\ Len(textEmbeddings) < MaxEmbeddings
    /\ \E lawTextId \in LawTextIds :
         textEmbeddings' = createTextEmbedding(textEmbeddings, lawTextId,
             generateEmbedding(textForEmbedding(LawTextById(lawTexts, lawTextId))))
    /\ UNCHANGED <<revision, lawTexts, messages, updatedAt, clock, calls,
                   searchResponse, ingestResponse, syncResponse, encoder,
                   bulkResponse, client>>

SearchRoute ==
    \E query \in Queries, domainIds \in DomainFilters, limit \in 0..MaxLimit :
        \E rows \in searchSimilarTexts(textEmbeddings, lawTexts,
                                       generateEmbedding(query), domainIds, limit) :
            /\ searchResponse' = [asked |-> TRUE, embeddings |-> textEmbeddings,
                                  queryEmbedding |-> generateEmbedding(query),
                                  domainIds |-> domainIds, limit |-> limit,
                                  rows |-> rows]
            /\ UNCHANGED <<revision, lawTexts, textEmbeddings, messages,
                           updatedAt, clock, calls, ingestResponse, syncResponse,
                   encoder, bulkResponse, client>>

(***************************************************************************)
(* Specifications.                                                         *)
(***************************************************************************)
\* One call at a time in one session, every revision and filter.
Next ==
    \/ UpdateEmbeddingForLawText
    \/ StartTurn(1, SequentialSessions, DomainFilters, DbOutcomes, MaxTurnMessages)
    \/ Retrieve(1)
    \/ Generate(1)
    \/ Persist(1, DbOutcomes)
    \/ Touch(1, DbOutcomes)
    \/ Return(1)

Spec == Init /\ [][Next]_vars

\* Overlapping calls against the current revision of ChatService.
InitConcurrent ==
    /\ revision = "semantic"
    /\ lawTexts = InitialLawTexts
    /\ textEmbeddings = IndexedL1L2
    /\ messages = <<>>
    /\ updatedAt = [s \in Sessions |-> 0]
    /\ clock = 0
    /\ calls = [c \in Calls |-> IdleCall]
    /\ searchResponse = NoSearch
    /\ ingestResponse = NoIngest
    /\ syncResponse = NoSync
    /\ encoder = InitialEncoder
    /\ bulkResponse = NoBulk
    /\ client = InitialClient

NextConcurrent ==
    \/ \E c \in Calls : StartTurn(c, Sessions, ConcurrentFilters, {"ok"}, MaxMessages)
    \/ \E c \in Calls : StartRegenerate(c, ConcurrentFilters, MaxMessages)
    \/ \E c \in Calls : Retrieve(c)
    \/ \E c \in Calls : Generate(c)
    \/ \E c \in Calls : Persist(c, {"ok"})
    \/ \E c \in Calls : Touch(c, {"ok"})
    \/ \E c \in Calls : Return(c)

SpecConcurrent == InitConcurrent /\ [][NextConcurrent]_vars

\* The search route against a growing index.
NextSearch ==
    \/ UpdateEmbeddingForLawText
    \/ SearchRoute

SpecSearch == Init /\ [][NextSearch]_vars

(***************************************************************************)
(* Properties.                                                             *)
(***************************************************************************)
\* The call has inserted its assistant message.
Persisted(c) == calls[c].pc \in {"touching", "done"} /\ calls[c].asstMsg # 0

\* The retrieval of the call has returned without throwing.
HasRetrieved(c) ==
    /\ calls[c].pc \in {"generating", "persisting", "touching", "done"}
    /\ calls[c].raisedBy \notin {"encoder", "store"}

\* The call went through Compose and callLLM and callLLM returned a text.
HasGenerated(c) ==
    /\ calls[c].pc \in {"persisting", "touching", "done"}
    /\ calls[c].raisedBy = "none"
    /\ calls[c].prompt # <<>>

\* The assistant messages inserted after the user message of the call.
AssistantMessagesSince(c) ==
    { i \in (calls[c].userMsg + 1)..Len(messages) : messages[i].role = "assistant" }

\* C1: when the retrieval (encoder or store) or the answer backend throws
\* during a processUserMessage call, the error does not reach the caller;
\* the call goes on and inserts exactly one assistant message, whose content
\* is the fixed non-empty fallback text and whose citation list is empty.
C1_FallbackOnRaise ==
    \A c \in Calls :
        (calls[c].kind = "turn" /\ calls[c].raisedBy # "none") =>
            /\ calls[c].error \in {"none", "storage"}
            /\ calls[c].pc \in {"persisting", "touching", "done", "failed"}
            /\ calls[c].pc = "failed" => calls[c].error = "storage"
            /\ calls[c].pc = "persisting" =>
                   calls[c].content = FallbackText /\ calls[c].citations = <<>>
            /\ Persisted(c) =>
                   /\ AssistantMessagesSince(c) = {calls[c].asstMsg}
                   /\ messages[calls[c].asstMsg].sessionId = calls[c].sessionId
                   /\ messages[calls[c].asstMsg].content = FallbackText
                   /\ Len(messages[calls[c].asstMsg].content) > 0
                   /\ messages[calls[c].asstMsg].citations = <<>>

\* A turn completed after its answer backend threw.
C1_Witness ==
    \E c \in Calls :
        /\ calls[c].kind = "turn" /\ calls[c].pc = "done"
        /\ calls[c].raisedBy = "llm"
        /\ messages[calls[c].asstMsg].content = FallbackText

\* A turn completed after its retrieval threw.
C1_WitnessRetrieval ==
    \E c \in Calls :
        /\ calls[c].kind = "turn" /\ calls[c].pc = "done"
        /\ calls[c].raisedBy \in {"encoder", "store"}
        /\ messages[calls[c].asstMsg].content = FallbackText

\* C2: callLLM never throws to generateResponse, and the text it returns is
\* never empty, whatever the backend does.
C2_CallLLMNeverRaises ==
    \A c \in Calls :
        /\ ~calls[c].llmRaised
        /\ HasGenerated(c) => Len(calls[c].content) > 0

\* The titles of the context blocks of a prompt, in the order they appear.
RECURSIVE RenderedTitles(_)
RenderedTitles(prompt) ==
    IF Len(prompt) < 4 THEN <<>>
    ELSE IF prompt[1] = "[" /\ prompt[3] = "]"
         THEN <<prompt[4]>> \o RenderedTitles(SubSeq(prompt, 5, Len(prompt)))
         ELSE RenderedTitles(Tail(prompt))

\* The titles of the law texts a citation list points at.
CitedTitles(citations) ==
    [i \in 1..Len(citations) |->
        LawTextById(lawTexts, citations[i].lawTextId).title[1]]

\* C3: in a call whose answer was generated, the citation list (as returned
\* and as inserted with the assistant message) has one entry per context
\* block of the prompt, in the same order: citation i is the law text of
\* block i, which is candidate i of the retrieval.
C3_CitationsFollowPrompt ==
    \A c \in Calls :
        HasGenerated(c) =>
            /\ CitedTitles(calls[c].citations) = RenderedTitles(calls[c].prompt)
            /\ Len(calls[c].citations) = Len(calls[c].relevantTexts)
            /\ \A i \in 1..Len(calls[c].citations) :
                   calls[c].citations[i].lawTextId = calls[c].relevantTexts[i].id
            /\ Persisted(c) =>
                   messages[calls[c].asstMsg].citations = calls[c].citations

\* A turn completed with two different law texts rendered and cited.
C3_Witness ==
    \E c \in Calls :
        /\ calls[c].kind = "turn" /\ calls[c].pc = "done" /\ HasGenerated(c)
        /\ Len(messages[calls[c].asstMsg].citations) = 2
        /\ messages[calls[c].asstMsg].citations[1].lawTextId
              # messages[calls[c].asstMsg].citations[2].lawTextId

\* The similarity the deployed retrieval assigns to a law text for a query.
ScoreOf(rev, lawTextId, query) ==
    IF rev = "keyword" THEN MockSimilarity
    ELSE Similarity(generateEmbedding(textForEmbedding(LawTextById(lawTexts, lawTextId))),
                    generateEmbedding(query))

\* C4: the relevanceScore of every citation is the similarity of the
\* candidate it was built from, unchanged; a single candidate of similarity
\* 0.85 yields exactly one citation, with that law text's id and 0.85.
C4_ScoreCopiedExactly ==
    \A c \in Calls :
        HasGenerated(c) =>
            /\ Len(calls[c].citations) = Len(calls[c].relevantTexts)
            /\ \A i \in 1..Len(calls[c].citations) :
                   /\ calls[c].citations[i].relevanceScore
                         = calls[c].relevantTexts[i].similarity
                   /\ calls[c].citations[i].relevanceScore
                         = ScoreOf(revision, calls[c].citations[i].lawTextId,
                                   calls[c].query)
            /\ (Len(calls[c].relevantTexts) = 1
                  /\ calls[c].relevantTexts[1].similarity = 85) =>
                   /\ Len(calls[c].citations) = 1
                   /\ calls[c].citations[1].lawTextId = calls[c].relevantTexts[1].id
                   /\ calls[c].citations[1].relevanceScore = 85
            /\ Persisted(c) =>
                   messages[calls[c].asstMsg].citations = calls[c].citations

\* The keyword retrieval found one law text, scored 0.85, and the turn
\* completed with the single citation of it.
C4_Witness ==
    \E c \in Calls :
        /\ revision = "keyword"
        /\ calls[c].kind = "turn" /\ calls[c].pc = "done"
        /\ Len(calls[c].relevantTexts) = 1
        /\ calls[c].relevantTexts[1].id = "L1"
        /\ Len(messages[calls[c].asstMsg].citations) = 1
        /\ messages[calls[c].asstMsg].citations[1].lawTextId = "L1"
        /\ messages[calls[c].asstMsg].citations[1].relevanceScore = 85

\* The position of a stored message among the messages of its session in
\* creation order.
PositionInSession(id) ==
    FindIndexById(getChatMessages(messages, messages[id].sessionId), id)

\* The message stored right before a message in its session.
PrecedingMessage(id) ==
    getChatMessages(messages, messages[id].sessionId)[PositionInSession(id) - 1]

\* The id names an assistant message that directly follows a user message
\* of its session.
AnswersUserMessage(id) ==
    /\ id \in 1..Len(messages)
    /\ messages[id].role = "assistant"
    /\ PositionInSession(id) > 1
    /\ PrecedingMessage(id).role = "user"

\* C5: regenerateResponse throws its not-found error and inserts nothing
\* when the target id names no message, names a message that is not an
\* assistant message, names the first message of its session, or names an
\* assistant message whose predecessor in its session is an assistant
\* message.
C5_RegenerateNotFound ==
    \A c \in Calls :
        (calls[c].kind = "regenerate" /\ ~AnswersUserMessage(calls[c].target)) =>
            /\ calls[c].pc = "failed"
            /\ calls[c].error = "NotFound"
            /\ calls[c].asstMsg = 0
            /\ \A i \in 1..Len(messages) : messages[i].id = i

\* A regeneration was refused for an assistant message that follows another
\* assistant message of its session.
C5_Witness ==
    \E c \in Calls :
        /\ calls[c].kind = "regenerate" /\ calls[c].pc = "failed"
        /\ calls[c].error = "NotFound"
        /\ calls[c].target \in 1..Len(messages)
        /\ messages[calls[c].target].role = "assistant"
        /\ PositionInSession(calls[c].target) > 1
        /\ PrecedingMessage(calls[c].target).role = "assistant"

\* C6: regenerateResponse on an assistant message that processUserMessage
\* inserted finds the message and the user message before it, runs
\* generateResponse again with the text of that user message, and inserts
\* the new assistant message in the same session.
C6_RegenerateRerunsTurn ==
    \A c \in Calls :
        (calls[c].kind = "regenerate" /\ AnswersUserMessage(calls[c].target)) =>
            /\ calls[c].error # "NotFound"
            /\ calls[c].pc # "failed"
            /\ calls[c].query = PrecedingMessage(calls[c].target).content
            /\ calls[c].sessionId = messages[calls[c].target].sessionId
            /\ calls[c].pc = "done" =>
                   /\ messages[calls[c].asstMsg].role = "assistant"
                   /\ messages[calls[c].asstMsg].sessionId = calls[c].sessionId
                   /\ calls[c].asstMsg > calls[c].target

\* The number of messages of a session in a message table.
SessionCount(msgs, sessionId) == Len(getChatMessages(msgs, sessionId))

RECURSIVE StableByScore(_)
StableByScore(rows) ==
    IF rows = <<>> THEN <<>>
    ELSE LET rest == StableByScore(SubSeq(rows, 1, Len(rows) - 1))
             last == rows[Len(rows)]
             keep == { i \in 1..Len(rest) : rest[i].similarity >= last.similarity }
         IN  SubSeq(rest, 1, Cardinality(keep)) \o <<last>>
                \o SubSeq(rest, Cardinality(keep) + 1, Len(rest))

\* C8: a search with limit k returns at most k rows, in non-increasing order
\* of similarity, rows of equal similarity in store order; with k = 0 it
\* returns no row.
C8_SearchOrdered ==
    searchResponse.asked =>
        LET rows == searchResponse.rows
            stored == JoinedRows(searchResponse.embeddings, lawTexts,
                                 searchResponse.queryEmbedding,
                                 searchResponse.domainIds)
        IN  /\ Len(rows) <= searchResponse.limit
            /\ \A i \in 1..(Len(rows) - 1) :
                   rows[i].similarity >= rows[i + 1].similarity
            /\ searchResponse.limit = 0 => rows = <<>>
            /\ rows = Substring0(StableByScore(stored), searchResponse.limit)

\* C9: with no row in text_embeddings the search returns the empty list
\* without an error, generateResponse builds the prompt without law texts,
\* and the assistant message it leads to has no citation and a non-empty
\* content.
C9_EmptyIndexFallbackPrompt ==
    /\ textEmbeddings = <<>> =>
          \A query \in Queries, domainIds \in DomainFilters, limit \in 0..MaxLimit :
              searchSimilarTexts(textEmbeddings, lawTexts, generateEmbedding(query),
                                 domainIds, limit) = {<<>>}
    /\ \A c \in Calls :
          (revision \in {"semantic", "pending"} /\ textEmbeddings = <<>>
             /\ calls[c].kind = "turn" /\ HasRetrieved(c)) =>
              /\ calls[c].similarTexts = <<>>
              /\ calls[c].pc # "generating" =>
                     /\ calls[c].prompt = FallbackPrompt(calls[c].query)
                     /\ calls[c].citations = <<>>
                     /\ Len(calls[c].content) > 0
              /\ Persisted(c) =>
                     /\ messages[calls[c].asstMsg].role = "assistant"
                     /\ messages[calls[c].asstMsg].citations = <<>>
                     /\ Len(messages[calls[c].asstMsg].content) > 0

\* A turn of the semantic revision completed against the empty index with
\* the answer of the local responder to the prompt without law texts.
C9_Witness ==
    \E c \in Calls :
        /\ revision = "semantic" /\ textEmbeddings = <<>>
        /\ calls[c].kind = "turn" /\ calls[c].pc = "done"
        /\ calls[c].raisedBy = "none"
        /\ calls[c].prompt = FallbackPrompt(calls[c].query)
        /\ messages[calls[c].asstMsg].citations = <<>>
        /\ messages[calls[c].asstMsg].content # FallbackText

\* C10: the retrieval with a similarity floor returns exactly the search
\* results whose similarity is at least the floor, in their order: a result
\* at the floor is kept, none below it is.
C10_FloorIsInclusive ==
    \A c \in Calls :
        (revision = "floor" /\ HasRetrieved(c)) =>
            calls[c].relevantTexts =
                SelectSeq(calls[c].similarTexts,
                          LAMBDA t : t.similarity >= SimilarityFloor)

\* The steps a processUserMessage call may take from one position to the next.
TurnSteps ==
    { <<"idle", "retrieving">>, <<"idle", "failed">>,
      <<"retrieving", "generating">>, <<"retrieving", "persisting">>,
      <<"generating", "persisting">>,
      <<"persisting", "touching">>, <<"persisting", "failed">>,
      <<"touching", "done">>, <<"touching", "failed">>,
      <<"done", "idle">>, <<"failed", "idle">> }

\* C11: a processUserMessage call inserts the user message, without
\* citations, before the retrieval starts; retrieves before it composes the
\* prompt and calls the backend; builds the citations from the retrieved
\* texts only once the backend has answered; inserts the assistant message
\* after that; and updates the session timestamp only after the assistant
\* message is inserted, as its last step before returning.
C11_TurnStepsInOrder ==
    [][ /\ \A c \in Calls :
            LET a == calls[c]
                b == calls'[c]
            IN  (a.pc # b.pc /\ (a.kind = "turn" \/ b.kind = "turn")) =>
                  /\ <<a.pc, b.pc>> \in TurnSteps
                  /\ (a.pc = "idle" /\ b.pc = "retrieving") =>
                        /\ Len(messages') = Len(messages) + 1
                        /\ b.userMsg = Len(messages')
                        /\ messages'[b.userMsg].role = "user"
                        /\ messages'[b.userMsg].content = b.query
                        /\ messages'[b.userMsg].citations = <<>>
                        /\ b.similarTexts = <<>> /\ b.prompt = <<>>
                  /\ a.pc = "retrieving" =>
                        /\ messages' = messages
                        /\ a.userMsg \in 1..Len(messages)
                        /\ a.prompt = <<>> /\ b.prompt = <<>>
                        /\ a.citations = <<>> /\ b.citations = <<>>
                  /\ a.pc = "generating" =>
                        /\ messages' = messages
                        /\ a.citations = <<>> /\ a.content = <<>>
                        /\ b.prompt = Compose(revision, a.query, a.relevantTexts)
                        /\ b.citations # <<>> =>
                              /\ ~b.llmRaised
                              /\ b.citations = BuildCitations(a.relevantTexts)
                  /\ (a.pc = "persisting" /\ b.pc = "touching") =>
                        /\ updatedAt' = updatedAt
                        /\ Len(messages') = Len(messages) + 1
                        /\ b.asstMsg = Len(messages') /\ b.asstMsg > a.userMsg
                        /\ messages'[b.asstMsg].role = "assistant"
                        /\ messages'[b.asstMsg].content = a.content
                        /\ messages'[b.asstMsg].citations = a.citations
                  /\ (a.pc = "touching" /\ b.pc = "done") =>
                        /\ messages' = messages
                        /\ updatedAt'[a.sessionId] = clock
        /\ \A s \in Sessions :
              updatedAt'[s] # updatedAt[s] =>
                  \E c \in Calls :
                      /\ calls[c].pc = "touching" /\ calls'[c].pc = "done"
                      /\ calls[c].sessionId = s
                      /\ calls[c].asstMsg \in 1..Len(messages)
                      /\ messages[calls[c].asstMsg].role = "assistant"
      ]_vars

\* A turn went through every step: texts retrieved, prompt composed, answer
\* generated, citations built, both messages inserted, session touched.
C11_Witness ==
    \E c \in Calls :
        /\ calls[c].kind = "turn" /\ calls[c].pc = "done"
        /\ calls[c].raisedBy = "none"
        /\ calls[c].similarTexts # <<>> /\ calls[c].prompt # <<>>
        /\ calls[c].citations # <<>>
        /\ calls[c].userMsg < calls[c].asstMsg
        /\ messages[calls[c].asstMsg].citations = calls[c].citations
        /\ updatedAt[calls[c].sessionId] = clock


\* The call has been through callLLM.
HasCalledLLM(c) ==
    /\ calls[c].pc \in {"persisting", "touching", "done"}
    /\ calls[c].prompt # <<>>

\* The backends of the deployed revision in the order callLLM goes through
\* them, the text of the catch block last.
BackendChain ==
    IF BackendOf(revision) = "none" THEN <<>>
    ELSE <<BackendOf(revision), "fallback">>

BackendStalls(c) ==
    /\ revision = "floor"
    /\ calls[c].pc = "generating"
    /\ calls' = [calls EXCEPT ![c] =
            [@ EXCEPT !.pc = "awaiting",
                      !.prompt = Compose(revision, calls[c].query,
                                         calls[c].relevantTexts),
                      !.attempts = <<"http">>]]
    /\ UNCHANGED <<revision, lawTexts, textEmbeddings, messages, updatedAt,
                   clock, searchResponse, ingestResponse, syncResponse,
                   encoder, bulkResponse, client>>

\* The store after two law texts were embedded, any revision deployed.
InitIndexed ==
    /\ revision \in Revisions
    /\ lawTexts = InitialLawTexts
    /\ textEmbeddings = IndexedL1L2
    /\ messages = <<>>
    /\ updatedAt = [s \in Sessions |-> 0]
    /\ clock = 0
    /\ calls = [c \in Calls |-> IdleCall]
    /\ searchResponse = NoSearch
    /\ ingestResponse = NoIngest
    /\ syncResponse = NoSync
    /\ encoder = InitialEncoder
    /\ bulkResponse = NoBulk
    /\ client = InitialClient

NextLive ==
    \/ StartTurn(1, SequentialSessions, DomainFilters, {"ok"}, MaxTurnMessages)
    \/ Retrieve(1)
    \/ Generate(1)
    \/ BackendStalls(1)
    \/ Persist(1, {"ok"})
    \/ Touch(1, {"ok"})
    \/ Return(1)

\* The event loop runs every continuation whose promise has settled: the
\* retrieval, the inserts and the update of a call are taken when they can
\* be.  Whether a request arrives, and whether and when the backend
\* answers, is not up to the program.
SpecLive ==
    /\ InitIndexed
    /\ [][NextLive]_vars
    /\ WF_vars(Retrieve(1))
    /\ WF_vars(Persist(1, {"ok"}))
    /\ WF_vars(Touch(1, {"ok"}))
    /\ WF_vars(Return(1))

\* C14: a callLLM call returns even when its backend does not answer: the
\* request is given up on after a timeout and the call goes on with what
\* follows the backend.
C14_GenerateReturns ==
    (calls[1].pc = "awaiting") ~> (calls[1].pc \in {"persisting", "touching", "done"})


\* The rows of text_embeddings that belong to a law text.
EmbeddingsOf(lawTextId) ==
    { i \in 1..Len(textEmbeddings) : textEmbeddings[i].lawTextId = lawTextId }

\* C15: every law text has at most one row in text_embeddings, so that
\* writing an embedding for a law text that has one replaces it, and a
\* search returns no law text twice.
C15_OneEmbeddingPerLawText ==
    /\ \A id \in LawTextIds : Cardinality(EmbeddingsOf(id)) <= 1
    /\ searchResponse.asked =>
          \A i, j \in 1..Len(searchResponse.rows) :
              i # j => searchResponse.rows[i].id # searchResponse.rows[j].id


(***************************************************************************)
(* Ingestion of embeddings: the two writers of text_embeddings.            *)
(***************************************************************************)
NextIngest ==
    \/ CreateTextEmbedding
    \/ UpdateEmbeddingForLawText

SpecIngest == Init /\ [][NextIngest]_vars

\* C16: a createTextEmbedding call whose vector has not exactly Dimensions
\* components fails with DimensionMismatch and leaves text_embeddings as it
\* was, and after every step every stored embedding has exactly Dimensions
\* components.
C16_DimensionEnforced ==
    [][ /\ \A i \in 1..Len(textEmbeddings') :
              Len(textEmbeddings'[i].embedding) = Dimensions
        /\ (/\ ingestResponse' # ingestResponse
            /\ Len(ingestResponse'.embedding) # Dimensions)
              => /\ ingestResponse'.error = "DimensionMismatch"
                 /\ textEmbeddings' = textEmbeddings ]_vars

\* A vector of the wrong size was refused while the table held rows.
C16_Witness ==
    /\ ingestResponse.asked
    /\ Len(ingestResponse.embedding) # Dimensions
    /\ ingestResponse.error = "DimensionMismatch"
    /\ textEmbeddings # <<>>


\* The law texts that had a row in text_embeddings when the search ran.
EmbeddedAtQueryTime ==
    { searchResponse.embeddings[j].lawTextId :
        j \in 1..Len(searchResponse.embeddings) }

\* C17: a law text without a row in text_embeddings is in no search result,
\* every returned row is a law text that had an embedding when the search
\* ran, and whatever rows text_embeddings lacks, the search has a result.
C17_UnembeddedNotSearchable ==
    /\ searchResponse.asked =>
          \A i \in 1..Len(searchResponse.rows) :
              searchResponse.rows[i].id \in EmbeddedAtQueryTime
    /\ \A domainIds \in DomainFilters :
          searchSimilarTexts(textEmbeddings, lawTexts,
                             generateEmbedding(<<"opsigelse">>), domainIds,
                             MaxLimit) # {}

\* A search returned rows while a law text that passes its filter had no
\* embedding.
C17_Witness ==
    /\ searchResponse.asked
    /\ searchResponse.rows # <<>>
    /\ \E l \in Range(lawTexts) :
          /\ WhereClause(l.domainId, searchResponse.domainIds)
          /\ l.id \notin EmbeddedAtQueryTime


(***************************************************************************)
(* RetsinformationService.syncLawTexts (part_002 404-477) and the law_texts *)
(* table it writes (schema.ts 24-39, storage.ts 136-154).                   *)
(***************************************************************************)
\* Documents of the remote source: the document R1 in two editions, and R2.
R1First  == [id |-> "R1", title |-> <<"lov">>, content |-> <<"varsel">>]
R1Second == [id |-> "R1", title |-> <<"ny", SP, "lov">>, content |-> <<"opsigelse">>]
R2First  == [id |-> "R2", title |-> <<"købeloven">>, content |-> <<"køb">>]

\* The document lists one fetchLawTexts call can return.
Listings ==
    { <<>>, <<R1First>>, <<R1Second>>, <<R2First>>,
      <<R1First, R1Second>>, <<R1Second, R2First>> }

\* getLegalDomains() restricted to the names of categoryMap, in name order.
SyncedDomains == <<"d1", "d2">>

\* retsinformation_id of a row; the rows that were not synced have none.
RetsinformationIdOf(l) ==
    IF "retsinformationId" \in DOMAIN l THEN l.retsinformationId ELSE "null"

\* storage.getLawTextByRetsinformationId: whether a row was found.
getLawTextByRetsinformationId(laws, retsinformationId) ==
    \E l \in Range(laws) : RetsinformationIdOf(l) = retsinformationId

\* gen_random_uuid() for the rows the synchronisation creates.
NewLawTextIds == <<"L4", "L5">>

\* storage.createLawText: a plain insert; retsinformation_id is unique, so
\* the insert of a second row with the same value raises and adds nothing.
createLawText(laws, lawText) ==
    IF getLawTextByRetsinformationId(laws, lawText.retsinformationId)
    THEN [raised |-> TRUE, laws |-> laws]
    ELSE [raised |-> FALSE,
          laws |-> Append(laws,
                     [id |-> NewLawTextIds[Len(laws) - Len(InitialLawTexts) + 1],
                      title |-> lawText.title, content |-> lawText.content,
                      domainId |-> lawText.domainId,
                      retsinformationId |-> lawText.retsinformationId])]

\* The body of the loop over response.documents for one document: skip a
\* known document unless fullSync, otherwise createLawText; its error is
\* caught and logged.
SyncDocument(laws, fullSync, domainId, doc) ==
    IF ~fullSync /\ getLawTextByRetsinformationId(laws, doc.id)
    THEN laws
    ELSE createLawText(laws, [title |-> doc.title, content |-> doc.content,
                              domainId |-> domainId,
                              retsinformationId |-> doc.id]).laws

RECURSIVE SyncDocuments(_, _, _, _)
\* for (const doc of response.documents)
SyncDocuments(laws, fullSync, domainId, documents) ==
    IF documents = <<>> THEN laws
    ELSE SyncDocuments(SyncDocument(laws, fullSync, domainId, Head(documents)),
                       fullSync, domainId, Tail(documents))

RECURSIVE SyncDomains(_, _, _, _)
\* for (const domain of domains): one page per domain, since total is the
\* length of the page and hasMore is false after the first page.
SyncDomains(laws, fullSync, fetched, d) ==
    IF d > Len(SyncedDomains) THEN laws
    ELSE SyncDomains(SyncDocuments(laws, fullSync, SyncedDomains[d], fetched[d]),
                     fullSync, fetched, d + 1)

\* POST /api/admin/sync-law-texts: one run of syncLawTexts.
SyncLawTexts ==
    \E fullSync \in BOOLEAN, fetched \in [1..Len(SyncedDomains) -> Listings] :
        /\ lawTexts' = SyncDomains(lawTexts, fullSync, fetched, 1)
        /\ syncResponse' = [asked |-> TRUE, fullSync |-> fullSync,
                            documents |-> fetched[1] \o fetched[2]]
        /\ UNCHANGED <<revision, textEmbeddings, messages, updatedAt, clock,
                       calls, searchResponse, ingestResponse, encoder,
                   bulkResponse, client>>

NextSync == SyncLawTexts

SpecSync == Init /\ [][NextSync]_vars

\* The rows of law_texts with an external id.
RowsOf(retsinformationId) ==
    { i \in 1..Len(lawTexts) : RetsinformationIdOf(lawTexts[i]) = retsinformationId }

\* The last document with an external id among those of the last run.
LastSupplied(retsinformationId) ==
    LET docs == syncResponse.documents
        last == CHOOSE i \in 1..Len(docs) :
                    /\ docs[i].id = retsinformationId
                    /\ \A j \in (i + 1)..Len(docs) : docs[j].id # retsinformationId
    IN  docs[last]

\* C18: law_texts holds at most one row per external id, and after a
\* synchronisation run the row of every document the run supplied carries
\* the title and content the run supplied last for that id.
C18_SyncIsUpsert ==
    /\ \A rid \in {"R1", "R2"} : Cardinality(RowsOf(rid)) <= 1
    /\ syncResponse.asked =>
          \A k \in 1..Len(syncResponse.documents) :
              LET rid == syncResponse.documents[k].id
              IN  \E i \in RowsOf(rid) :
                      /\ lawTexts[i].title = LastSupplied(rid).title
                      /\ lawTexts[i].content = LastSupplied(rid).content

\* The part of C18 the unique column gives: never two rows per external id.
C18_OneRowPerExternalId ==
    \A rid \in {"R1", "R2"} : Cardinality(RowsOf(rid)) <= 1


\* The message with an id among the messages getChatMessages returns for a
\* session, as a set (empty when the list does not have it).
ListedAs(sessionId, id) ==
    LET listed == getChatMessages(messages, sessionId)
    IN  { listed[i] : i \in { j \in 1..Len(listed) : listed[j].id = id } }

\* C19: a message inserted by createChatMessage is in the list
\* getChatMessages returns for its session with the role, content and
\* citations that were passed in (the same citations in the same order), and
\* the list holds exactly the messages of the session in the order of their
\* creation.
C19_MessageRoundTrip ==
    /\ \A c \in Calls :
          /\ (calls[c].kind = "turn" /\ calls[c].userMsg # 0) =>
                \E m \in ListedAs(calls[c].sessionId, calls[c].userMsg) :
                    /\ m.role = "user"
                    /\ m.content = calls[c].query
                    /\ m.citations = <<>>
          /\ Persisted(c) =>
                \E m \in ListedAs(calls[c].sessionId, calls[c].asstMsg) :
                    /\ m.role = "assistant"
                    /\ m.content = calls[c].content
                    /\ m.citations = calls[c].citations
    /\ \A s \in Sessions :
          LET listed == getChatMessages(messages, s)
          IN  /\ \A i \in 1..(Len(listed) - 1) : listed[i].id < listed[i + 1].id
              /\ { listed[i].id : i \in 1..Len(listed) } =
                    { messages[i].id : i \in { j \in 1..Len(messages) :
                                                   messages[j].sessionId = s } }

\* An assistant message with citations was inserted and is listed behind
\* the user message of its turn while the other session has messages too.
C19_Witness ==
    \E c \in Calls :
        /\ calls[c].kind = "turn" /\ Persisted(c)
        /\ calls[c].citations # <<>>
        /\ Len(getChatMessages(messages, calls[c].sessionId)) >= 2
        /\ \E s \in Sessions :
              s # calls[c].sessionId /\ getChatMessages(messages, s) # <<>>


\* The position in a prompt of the heading of the block of rank i.
BlockAt(prompt, relevantTexts, i) ==
    IndexOfFrom(prompt, <<"[", ToString(i), "]">> \o relevantTexts[i].title, 1)

\* C20: the prompt generateResponse composes has the question verbatim
\* behind its heading; it is the prompt with law texts, with one block per
\* candidate in rank order, exactly when the candidate list is non-empty,
\* and the prompt without law texts, which recommends a legal expert,
\* exactly when the list is empty; it is determined by the question and the
\* candidates.
C20_ComposeGroundedIffCandidates ==
    \A c \in Calls :
        calls[c].prompt # <<>> =>
            LET prompt == calls[c].prompt
                query == calls[c].query
                relevantTexts == calls[c].relevantTexts
            IN  /\ Includes(prompt, <<SPM>> \o query \o <<NLNL>>)
                /\ (Len(relevantTexts) > 0) <=> Includes(prompt, <<REL>>)
                /\ (Len(relevantTexts) = 0) <=>
                      Includes(prompt, <<"- Anbefal at konsultere en juridisk ekspert">>)
                /\ Cardinality({ i \in 1..Len(prompt) : prompt[i] = "[" }) =
                      Len(relevantTexts)
                /\ \A i \in 1..Len(relevantTexts) :
                      /\ BlockAt(prompt, relevantTexts, i) > 0
                      /\ i > 1 => BlockAt(prompt, relevantTexts, i - 1)
                                    < BlockAt(prompt, relevantTexts, i)
                /\ prompt = IF Len(relevantTexts) > 0
                            THEN GroundedPrompt(revision, query, relevantTexts)
                            ELSE FallbackPrompt(query)

\* A prompt with the blocks of two candidates was composed and answered.
C20_Witness ==
    \E c \in Calls :
        /\ HasGenerated(c)
        /\ Len(calls[c].relevantTexts) = 2
        /\ Includes(calls[c].prompt, <<REL>>)
        /\ Includes(calls[c].prompt, calls[c].query)


(***************************************************************************)
(* EmbeddingsService: initialize and generateEmbedding (schema.ts 149-172). *)
(***************************************************************************)
\* The texts handed to generateEmbedding.
EncoderTexts ==
    { <<"opsigelse">>, <<SP, "opsigelse", NL, SP>>, <<"lov", SP, SP, "varsel">>,
      <<"lov", NL, "varsel">>, <<NLNL, "lov", SP, NL, SP, "varsel", SP>>, <<SP, NL>> }

\* The other fields of the service are left as they are.
OtherFieldsUnchanged ==
    UNCHANGED <<revision, lawTexts, textEmbeddings, messages, updatedAt, clock,
                calls, searchResponse, ingestResponse, syncResponse,
                   bulkResponse, client>>

\* generateEmbedding(text) up to the await in initialize: the test of
\* this.model and, when it is null, the call of pipeline() run in one piece.
CallGenerateEmbedding(k) ==
    /\ encoder.callers[k].pc = "idle"
    /\ \E text \in EncoderTexts :
         encoder' =
            IF encoder.model = "null"
            THEN [encoder EXCEPT !.loads = encoder.loads + 1,
                                 !.callers[k] = [NoEncoderCall EXCEPT
                                     !.pc = "loading", !.text = text]]
            ELSE [encoder EXCEPT !.callers[k] = [NoEncoderCall EXCEPT
                                     !.pc = "initialized", !.text = text]]
    /\ OtherFieldsUnchanged

\* this.model = await pipeline(...): the load of this caller has finished.
LoadDone(k) ==
    /\ encoder.callers[k].pc = "loading"
    /\ encoder' = [encoder EXCEPT !.model = "loaded",
                                  !.callers[k].pc = "initialized"]
    /\ OtherFieldsUnchanged

\* pipeline() rejects: initialize and generateEmbedding reject with it.
LoadFails(k) ==
    /\ encoder.callers[k].pc = "loading"
    /\ encoder.failures < MaxEncoderCallers
    /\ encoder' = [encoder EXCEPT !.failures = encoder.failures + 1,
                                  !.callers[k].pc = "rejected"]
    /\ OtherFieldsUnchanged

\* cleanedText, the model call and Array.from(result.data).
Encode(k) ==
    /\ encoder.callers[k].pc = "initialized"
    /\ encoder' = [encoder EXCEPT
            !.callers[k].pc = "resolved",
            !.callers[k].cleanedText = CleanText(encoder.callers[k].text),
            !.callers[k].embedding = ModelVector(CleanText(encoder.callers[k].text))]
    /\ OtherFieldsUnchanged

\* The caller has taken the result or the error.
Settle(k) ==
    /\ encoder.callers[k].pc \in {"resolved", "rejected"}
    /\ encoder' = [encoder EXCEPT !.callers[k] = NoEncoderCall]
    /\ OtherFieldsUnchanged

NextEncoder ==
    \E k \in EncoderCallers :
        \/ CallGenerateEmbedding(k)
        \/ LoadDone(k)
        \/ LoadFails(k)
        \/ Encode(k)
        \/ Settle(k)

SpecEncoder == Init /\ [][NextEncoder]_vars

\* The tokens of a text that are not whitespace, in their order.
WordsOf(text) == SelectSeq(text, LAMBDA t : t \notin Whitespace)

\* A text with no whitespace at its ends, no two whitespace tokens in a row
\* and no whitespace token but the single space.
IsNormalised(text) ==
    /\ text # <<>> => (text[1] \notin Whitespace /\ text[Len(text)] \notin Whitespace)
    /\ \A i \in 1..Len(text) : text[i] \in Whitespace => text[i] = SP
    /\ \A i \in 1..(Len(text) - 1) :
          ~(text[i] \in Whitespace /\ text[i + 1] \in Whitespace)

\* C21: the text generateEmbedding hands to the model is its input with
\* every whitespace run collapsed to one space and the ends trimmed (the
\* same words in the same order); cleaning a cleaned text changes nothing;
\* two calls whose cleaned texts are equal return identical vectors; and
\* every returned vector has Dimensions components.
C21_EncodeNormalises ==
    /\ \A k \in EncoderCallers :
          encoder.callers[k].pc = "resolved" =>
              LET call == encoder.callers[k]
              IN  /\ IsNormalised(call.cleanedText)
                  /\ WordsOf(call.cleanedText) = WordsOf(call.text)
                  /\ Len(call.cleanedText) =
                        Len(WordsOf(call.text))
                        + (IF WordsOf(call.text) = <<>> THEN 0
                           ELSE Len(WordsOf(call.text)) - 1
                                - Cardinality({ i \in 1..(Len(call.text) - 1) :
                                      call.text[i] \notin Whitespace
                                      /\ call.text[i + 1] \notin Whitespace }))
                  /\ CleanText(call.cleanedText) = call.cleanedText
                  /\ Len(call.embedding) = Dimensions
    /\ \A k1, k2 \in EncoderCallers :
          (/\ encoder.callers[k1].pc = "resolved"
           /\ encoder.callers[k2].pc = "resolved"
           /\ encoder.callers[k1].cleanedText = encoder.callers[k2].cleanedText)
              => encoder.callers[k1].embedding = encoder.callers[k2].embedding

\* Two calls with different texts of the same cleaned form have resolved
\* with the same vector.
C21_Witness ==
    \E k1, k2 \in EncoderCallers :
        /\ encoder.callers[k1].pc = "resolved"
        /\ encoder.callers[k2].pc = "resolved"
        /\ encoder.callers[k1].text # encoder.callers[k2].text
        /\ encoder.callers[k1].text # encoder.callers[k1].cleanedText
        /\ encoder.callers[k1].cleanedText = encoder.callers[k2].cleanedText
        /\ encoder.callers[k1].embedding = encoder.callers[k2].embedding


\* C23: the model is loaded at most once: of the pipeline() calls made, at
\* most one is running or has succeeded, however the callers overlap.
C23_ModelLoadedOnce ==
    encoder.loads - encoder.failures <= 1


(***************************************************************************)
(* EmbeddingsService.processLawTextsEmbeddings (schema.ts 185-238) behind  *)
(* POST /api/admin/generate-embeddings (deepseek.ts 373-382).              *)
(***************************************************************************)
\* storage.searchSimilarTexts([], [], 1), the test for an existing
\* embedding: the query vector is written '[]' and cast to vector, which the
\* database refuses (a vector has at least one component).  Over an empty
\* text_embeddings the database may answer with no row without evaluating
\* the cast (castEvaluated FALSE) or refuse as well.
ExistenceCheck(embs, castEvaluated) ==
    IF embs # <<>> \/ castEvaluated
    THEN [raised |-> TRUE, rows |-> <<>>]
    ELSE [raised |-> FALSE, rows |-> <<>>]

\* The body of the loop for one law text; every error is caught and logged.
ProcessLawText(run, lawText, castEvaluated, encoderWorks) ==
    LET existingEmbeddings == ExistenceCheck(run.embs, castEvaluated)
        hasEmbedding == \E i \in 1..Len(existingEmbeddings.rows) :
                            existingEmbeddings.rows[i].id = lawText.id
    IN  IF existingEmbeddings.raised
        THEN [run EXCEPT !.storeErrors = run.storeErrors + 1]
        ELSE IF hasEmbedding THEN run
        ELSE IF ~encoderWorks
        THEN [run EXCEPT !.encoderErrors = run.encoderErrors + 1]
        ELSE [run EXCEPT
                !.embs = createTextEmbedding(run.embs, lawText.id,
                            generateEmbedding(textForEmbedding(lawText))),
                !.processed = run.processed + 1]

RECURSIVE ProcessLawTexts(_, _, _, _)
\* for (const lawText of batch), over all batches.
ProcessLawTexts(run, laws, castEvaluated, encoderWorks) ==
    IF laws = <<>> THEN run
    ELSE ProcessLawTexts(ProcessLawText(run, Head(laws), castEvaluated, encoderWorks),
                         Tail(laws), castEvaluated, encoderWorks)

\* One request of POST /api/admin/generate-embeddings: 500 when getLawTexts
\* rejects, 200 in every other case.
ProcessLawTextsEmbeddings ==
    /\ \E listing \in {"ok", "error"}, castEvaluated \in BOOLEAN,
          encoderWorks \in BOOLEAN :
         LET start == [embs |-> textEmbeddings, processed |-> 0,
                       storeErrors |-> 0, encoderErrors |-> 0]
             run == IF listing = "error" THEN start
                    ELSE ProcessLawTexts(start, getLawTexts(lawTexts, <<>>),
                                         castEvaluated, encoderWorks)
         IN  /\ textEmbeddings' = run.embs
             /\ bulkResponse' =
                    [asked |-> TRUE, before |-> textEmbeddings, after |-> run.embs,
                     processed |-> run.processed,
                     storeErrors |-> run.storeErrors,
                     encoderErrors |-> run.encoderErrors,
                     status |-> IF listing = "error" THEN 500 ELSE 200]
    /\ UNCHANGED <<revision, lawTexts, messages, updatedAt, clock, calls,
                   searchResponse, ingestResponse, syncResponse, encoder,
                   client>>

NextBulk ==
    \/ ProcessLawTextsEmbeddings
    \/ UpdateEmbeddingForLawText

SpecBulk == Init /\ [][NextBulk]_vars

\* C22: a failure of the encoder is not swallowed: a bulk run in which
\* generateEmbedding failed is not answered as a success.
C22_EncoderFailureSurfaces ==
    (bulkResponse.asked /\ bulkResponse.encoderErrors > 0) =>
        bulkResponse.status # 200

\* The number of rows a table of embeddings has for a law text.
RowCount(embs, lawTextId) ==
    Cardinality({ i \in 1..Len(embs) : embs[i].lawTextId = lawTextId })

\* C28: a successful bulk run leaves every law text that had no embedding
\* with exactly one and adds nothing for a law text that had one, so that a
\* second run changes nothing.
C28_BulkIsIdempotent ==
    (bulkResponse.asked /\ bulkResponse.status = 200) =>
        \A id \in LawTextIds :
            RowCount(bulkResponse.after, id) =
                (IF RowCount(bulkResponse.before, id) = 0 THEN 1
                 ELSE RowCount(bulkResponse.before, id))


(***************************************************************************)
(* Submission and first insert of a turn taken apart: the route handler    *)
(* calls processUserMessage, which awaits the insert of the user message   *)
(* (chat.ts 287-296); the inserts of requests in flight complete in the    *)
(* order the database serves its connections.                              *)
(***************************************************************************)
\* The request has arrived and the insert of its user message is issued.
\* after: the turns that had answered when this one arrived.
SubmitTurn(c) ==
    /\ FirstIdle(c)
    /\ 2 * c <= MaxMessages
    /\ \E sessionId \in Sessions, userMessage \in ChatQueries :
         calls' = [calls EXCEPT ![c] =
            [IdleCall EXCEPT !.kind = "turn", !.pc = "submitted",
                             !.sessionId = sessionId, !.query = userMessage,
                             !.after = { d \in Calls : calls[d].pc = "done" }]]
    /\ UNCHANGED <<revision, lawTexts, textEmbeddings, messages, updatedAt,
                   clock, searchResponse, ingestResponse, syncResponse,
                   encoder, bulkResponse, client>>

\* The awaited insert of the user message has completed.
InsertUserMessage(c) ==
    /\ calls[c].pc = "submitted"
    /\ clock' = clock + 1
    /\ messages' = createChatMessage(messages, clock', calls[c].sessionId,
                                     "user", calls[c].query, <<>>)
    /\ calls' = [calls EXCEPT ![c] =
            [@ EXCEPT !.pc = "retrieving", !.userMsg = Len(messages) + 1]]
    /\ UNCHANGED <<revision, lawTexts, textEmbeddings, updatedAt,
                   searchResponse, ingestResponse, syncResponse,
                   encoder, bulkResponse, client>>

\* Overlapping turns; a slot is used once, so slots are in submission order.
NextSubmission ==
    \/ \E c \in Calls : SubmitTurn(c)
    \/ \E c \in Calls : InsertUserMessage(c)
    \/ \E c \in Calls : Retrieve(c)
    \/ \E c \in Calls : Generate(c)
    \/ \E c \in Calls : Persist(c, {"ok"})
    \/ \E c \in Calls : Touch(c, {"ok"})

SpecSubmission == InitConcurrent /\ [][NextSubmission]_vars

C24_SequentialTurnsInOrder ==
    \A c, d \in Calls :
        (/\ c \in calls[d].after
         /\ calls[c].sessionId = calls[d].sessionId
         /\ calls[d].asstMsg # 0) =>
            /\ PositionInSession(calls[c].userMsg) < PositionInSession(calls[c].asstMsg)
            /\ PositionInSession(calls[c].asstMsg) < PositionInSession(calls[d].userMsg)
            /\ PositionInSession(calls[d].userMsg) < PositionInSession(calls[d].asstMsg)


\* C25: an assistant message in chat_messages has at most TopK citations
\* and cites no law text twice.
C25_CitationsBoundedAndDistinct ==
    \A m \in 1..Len(messages) :
        messages[m].role = "assistant" =>
            /\ Len(messages[m].citations) <= TopK
            /\ \A i, j \in 1..Len(messages[m].citations) :
                  i # j => messages[m].citations[i].lawTextId
                              # messages[m].citations[j].lawTextId


\* The rows of text_embeddings at the time of the search whose law text is
\* of one of the domains.
IndexedIn(domains) ==
    { j \in 1..Len(searchResponse.embeddings) :
        LawTextById(lawTexts, searchResponse.embeddings[j].lawTextId).domainId
            \in domains }

\* C26: a search with a non-empty domainIds returns only law texts of those
\* domains, as many as the limit and the indexed rows of those domains
\* allow; a search with an empty domainIds is not restricted: it returns as
\* many rows as the limit and the whole index allow.
C26_DomainFilter ==
    searchResponse.asked =>
        LET rows == searchResponse.rows
            domainIds == searchResponse.domainIds
        IN  IF domainIds # <<>>
            THEN /\ \A i \in 1..Len(rows) : rows[i].domainId \in Range(domainIds)
                 /\ Len(rows) = Min2(searchResponse.limit,
                                     Cardinality(IndexedIn(Range(domainIds))))
            ELSE Len(rows) = Min2(searchResponse.limit,
                                  Len(searchResponse.embeddings))

\* A filtered search returned a row and left out an indexed law text of
\* another domain that the limit had room for.
C26_Witness ==
    /\ searchResponse.asked
    /\ searchResponse.domainIds = <<"d1">>
    /\ searchResponse.rows # <<>>
    /\ IndexedIn({"d2"}) # {}
    /\ Len(searchResponse.rows) < searchResponse.limit

\* An unrestricted search returned rows of both domains.
C26_WitnessUnrestricted ==
    /\ searchResponse.asked
    /\ searchResponse.domainIds = <<>>
    /\ { searchResponse.rows[i].domainId : i \in 1..Len(searchResponse.rows) }
          = {"d1", "d2"}


(***************************************************************************)
(* Turns whose user text carries the section markers of the prompt.        *)
(***************************************************************************)
\* User texts with and without the markers of the prompt templates.
MarkerQueries ==
    { <<"opsigelse">>, <<"hvad", SP, REL>>, <<"opsigelse", NLNL, INS>>,
      <<"hvad", NLNL, REL, NL, "skat", NLNL, INS>> }

\* hasLegalContext: the branch generateContextAwareResponse takes.
hasLegalContext(prompt) == Includes(prompt, <<REL>>)

\* The question generateContextAwareResponse reads back out of the prompt.
ExtractedQuestion(prompt) ==
    IF hasLegalContext(prompt)
    THEN GroupOrEmpty(LazyGroup(prompt, <<SPM>>, <<NLNL, REL>>))
    ELSE GroupOrEmpty(LazyGroup(prompt, <<SPM>>, <<NLNL, INS>>))

\* POST /api/chat-sessions/:sessionId/messages with such a text, up to the
\* insert of the user message.
StartTurnWithMarkers(c) ==
    /\ FirstIdle(c)
    /\ Len(messages) + Reserved + 2 <= MaxTurnMessages
    /\ \E userMessage \in MarkerQueries :
         /\ clock' = clock + 1
         /\ messages' = createChatMessage(messages, clock', "s1", "user",
                                          userMessage, <<>>)
         /\ calls' = [calls EXCEPT ![c] =
                [IdleCall EXCEPT !.kind = "turn", !.sessionId = "s1",
                                 !.query = userMessage, !.pc = "retrieving",
                                 !.userMsg = Len(messages) + 1]]
    /\ UNCHANGED <<revision, lawTexts, textEmbeddings, updatedAt,
                   searchResponse, ingestResponse, syncResponse,
                   encoder, bulkResponse, client>>

NextMarkers ==
    \/ UpdateEmbeddingForLawText
    \/ StartTurnWithMarkers(1)
    \/ Retrieve(1)
    \/ Generate(1)
    \/ Persist(1, {"ok"})
    \/ Touch(1, {"ok"})
    \/ Return(1)

SpecMarkers == Init /\ [][NextMarkers]_vars

\* C27: the local responder of chat.ts answers with its text for retrieved
\* law texts exactly when the turn had candidates, and the question it
\* reads out of the prompt is the trimmed user text, whatever markers the
\* user text contains.
C27_ResponderReadsBackQuery ==
    \A c \in Calls :
        (revision = "semantic" /\ HasGenerated(c)) =>
            /\ (Len(calls[c].relevantTexts) > 0) <=>
                  (calls[c].content[1] =
                      "**Juridisk vejledning baseret på relevante lovbestemmelser:**")
            /\ ExtractedQuestion(calls[c].prompt) = Trim(calls[c].query)

\* C27 for user texts without a marker.
C27_PlainQueriesReadBack ==
    \A c \in Calls :
        (/\ revision = "semantic" /\ HasGenerated(c)
         /\ ~Includes(calls[c].query, <<REL>>) /\ ~Includes(calls[c].query, <<INS>>)) =>
            /\ (Len(calls[c].relevantTexts) > 0) <=>
                  (calls[c].content[1] =
                      "**Juridisk vejledning baseret på relevante lovbestemmelser:**")
            /\ ExtractedQuestion(calls[c].prompt) = Trim(calls[c].query)


\* The ids of the rows of chat_messages.
MessageIds == { messages[i].id : i \in 1..Len(messages) }

\* C29: a processUserMessage call that ended with an error has left no row
\* in chat_messages, and once no call is running every user message of a
\* session is followed by an assistant message.
C29_TurnIsAllOrNothing ==
    /\ \A c \in Calls :
          (calls[c].kind = "turn" /\ calls[c].pc = "failed") =>
              /\ calls[c].userMsg \notin MessageIds
              /\ calls[c].asstMsg \notin MessageIds
    /\ (\A c \in Calls : calls[c].pc \in {"idle", "done", "failed"}) =>
          \A s \in Sessions :
              LET listed == getChatMessages(messages, s)
              IN  \A i \in 1..Len(listed) :
                      listed[i].role = "user" =>
                          /\ i < Len(listed)
                          /\ listed[i + 1].role = "assistant"


(***************************************************************************)
(* The chat page: handleSendMessageWithSession (chat-interface.tsx 30-35)  *)
(* over the useChat hook (createSessionMutation, sendMessageMutation,      *)
(* createNewSession, sendMessage).  Session ids are 1, 2, ...; 0 stands    *)
(* for undefined.  state is the value of the currentSessionId state,       *)
(* rendered the value the closures of the last render (and the mutationFn  *)
(* the mutation observer holds) were built with.                           *)
(***************************************************************************)
\* Everything but the client is left as it is.
ServerUnchanged ==
    UNCHANGED <<revision, lawTexts, textEmbeddings, messages, updatedAt, clock,
                calls, searchResponse, ingestResponse, syncResponse, encoder,
                bulkResponse>>

\* The outcomes of the message POST.
ApiOutcomes == {"ok", "error"}

\* The component renders with the current state; the mutation observer
\* takes the mutationFn of that render.
Render ==
    /\ client.rendered # client.state
    /\ client' = [client EXCEPT !.rendered = client.state]
    /\ ServerUnchanged

\* The user sends a message: the handler of the last render runs up to its
\* first await.  With no session in that render it calls createNewSession.
HandleSendMessageWithSession ==
    /\ client.pc = "idle"
    /\ client.sends < MaxClientSends
    /\ \E message \in ChatQueries, domainIds \in DomainFilters :
         client' = [client EXCEPT
            !.pc = IF client.rendered = 0 THEN "createNewSession" ELSE "sendMessage",
            !.closure = client.rendered,
            !.message = message, !.domainIds = domainIds,
            !.sends = client.sends + 1, !.error = "none"]
    /\ ServerUnchanged

\* createSessionMutation settles: onSuccess sets currentSessionId to the new
\* session; on an error mutateAsync rejects and the handler ends.
AfterCreateSession(next) ==
    { [client EXCEPT !.pc = next,
                     !.created = Append(client.created, client.message),
                     !.state = Len(client.created) + 1],
      [client EXCEPT !.pc = "idle", !.error = "create"] }

\* await createNewSession() in the handler.
CreateNewSessionDone ==
    /\ client.pc = "createNewSession"
    /\ client' \in AfterCreateSession("sendMessage")
    /\ ServerUnchanged

\* sendMessage of the render the handler was built in: with no session id
\* in that render it creates a session before it posts.
SendMessage ==
    /\ client.pc = "sendMessage"
    /\ client' = [client EXCEPT
            !.pc = IF client.closure = 0 THEN "createInSendMessage" ELSE "post"]
    /\ ServerUnchanged

\* await createSessionMutation.mutateAsync(...) inside sendMessage.
CreateInSendMessageDone ==
    /\ client.pc = "createInSendMessage"
    /\ client' \in AfterCreateSession("post")
    /\ ServerUnchanged

\* sendMessageMutation.mutateAsync: the mutationFn of the last render
\* throws without a session id and posts to its session id otherwise.
PostMessage ==
    /\ client.pc = "post"
    /\ \E outcome \in ApiOutcomes :
         client' =
            IF client.rendered = 0
            THEN [client EXCEPT !.pc = "idle", !.error = "No active session"]
            ELSE IF outcome = "ok"
            THEN [client EXCEPT
                    !.pc = "idle",
                    !.posted = Append(client.posted,
                                  [sessionId |-> client.rendered,
                                   message |-> client.message])]
            ELSE [client EXCEPT !.pc = "idle", !.error = "post"]
    /\ ServerUnchanged

NextClient ==
    \/ Render
    \/ HandleSendMessageWithSession
    \/ CreateNewSessionDone
    \/ SendMessage
    \/ CreateInSendMessageDone
    \/ PostMessage

SpecClient == Init /\ [][NextClient]_vars

\* C30: once the first send from a page without a session has gone through
\* its session creation, exactly one session exists and the message is
\* posted to it; the handler never creates a second session and never ends
\* with 'No active session'.
C30_FirstSendCreatesOneSession ==
    /\ client.error # "No active session"
    /\ (client.sends = 1 /\ client.closure = 0) => Len(client.created) <= 1
    /\ (client.sends = 1 /\ client.closure = 0 /\ client.posted # <<>>) =>
          /\ Len(client.created) = 1
          /\ client.posted[1].sessionId = 1

\* The first send ends with two sessions created.
C30_TwoSessions ==
    ~(client.sends = 1 /\ client.pc = "idle" /\ Len(client.created) = 2)

\* The first send ends with 'No active session'.
C30_NoActiveSession ==
    client.error # "No active session"


=============================================================================
